---------------------------- MODULE Spec2Model ----------------------------
(***************************************************************************)
(* The bulk HTTP client of pigeonlab/notifier (package pkg): one call of   *)
(* BulkHTTPClient.Do on one BulkRequest.  The goroutines of a run are the  *)
(* caller (Do / completionListener), the collector                         *)
(* (collectProcessedResponses), the orchestrator (orchestrateProcesses),   *)
(* the publisher (publishAllRequests), the dispatch workers (fireRequests) *)
(* and the processing workers (processRequests).  All channels are         *)
(* unbuffered, so a send and its receive are one joint step.  A select     *)
(* with several ready cases is a nondeterministic choice: every ready case *)
(* is an enabled action.  The workers of a pool are anonymous goroutines   *)
(* running the same function, so a pool is the bag of its workers' states. *)
(***************************************************************************)
EXTENDS Naturals, Integers, Sequences, FiniteSets, Bags

\* Bounds of the model.
MaxRequests == 2
MaxWorkers == 2
MaxCloseCalls == 2

VARIABLES
    requests,        \* BulkRequest.requests
    responses,       \* BulkRequest.responses
    errors,          \* BulkRequest.errors
    dispatchRequestsWorkers,   \* BulkRequest.dispatchRequestsWorkers (Wd)
    responseProcessorWorkers,  \* BulkRequest.responseProcessorWorkers (Wp)
    ctxErr,          \* ctx.Err() of BulkHTTPClient.ctx: "nil", "canceled" or "deadline"
    callerPc,        \* position of the goroutine that calls Do
    delivered,       \* the list completionListener received from collectResponses
    ret,             \* what Do returned: [responses, errors]
    closes,          \* per channel made, how many times close() ran on it
    collectorPc,     \* position of collectProcessedResponses
    responseList,    \* its local responseList
    orchPc,          \* position of orchestrateProcesses
    publishPc,       \* position of publishAllRequests
    publishIndex,    \* its loop index
    fire,            \* the dispatch pool: a bag of [pc, parcel], one per fireRequests
    proc,            \* the processing pool: a bag of [pc, parcel], one per processRequests
    raw,             \* history: per index, what HTTPClient.Do returned
    calls,           \* history: per index, how many times HTTPClient.Do was invoked
    bodyClosed,      \* history: per index, how many times the transport's body was closed
    ctxAtStart,      \* history: ctx.Err() when Do was called
    ctxAtCall,       \* history: per index, ctx.Err() when HTTPClient.Do returned
    respClosed,      \* history: per slot, how many times Body.Close() ran on responses[i]
    closeCalls,      \* history: calls of CloseAllResponses on the current responses
    closePanic       \* history: a call of CloseAllResponses dereferenced a nil response

vars == <<requests, responses, errors, dispatchRequestsWorkers,
          responseProcessorWorkers, ctxErr, callerPc, delivered, ret, closes,
          collectorPc, responseList, orchPc, publishPc, publishIndex, fire,
          proc, raw, calls, bodyClosed, ctxAtStart, ctxAtCall, respClosed,
          closeCalls,
          closePanic>>

\* Groups of variables, for UNCHANGED.
batchConf == <<requests, dispatchRequestsWorkers, responseProcessorWorkers>>
batchOut == <<responses, errors>>
callerVars == <<callerPc, delivered, ret>>
collectorVars == <<collectorPc, responseList>>
publishVars == <<publishPc, publishIndex>>
released == <<respClosed, closeCalls, closePanic>>
history == <<raw, calls, bodyClosed, ctxAtStart, ctxAtCall, released>>

-----------------------------------------------------------------------------
\* Values.

\* Go's nil (pointer, error or slice element).
Nil == [tag |-> "nil"]

\* interr.ErrRequestsNotFound
ErrRequestsNotFound == [tag |-> "ErrRequestsNotFound"]

\* interr.ErrIgnored
ErrIgnored == [tag |-> "ErrIgnored"]

\* The i-th request handed to NewBulkRequest / AddRequest (i counts from 0).
\* Every request is a distinct *http.Request.
Request(i) == [tag |-> "request", id |-> i]

\* The error HTTPClient.Do returns for a request it fails.
TransportFailure(req) == [tag |-> "failure", of |-> req.id]

\* The *http.Response HTTPClient.Do returns for a request; readable says
\* whether ioutil.ReadAll on its body succeeds.
TransportResponse(req, readable) ==
    [tag |-> "response", of |-> req.id, readable |-> readable]

\* What HTTPClient.Do may return for a request, (response-or-nil,
\* error-or-nil): a response whose body reads, a response whose body fails to
\* read, an error, an error together with a response (net/http does so when
\* CheckRedirect fails), and neither (a transport that breaks its contract).
TransportOutcomes(req) ==
    { [response |-> TransportResponse(req, TRUE), err |-> Nil],
      [response |-> TransportResponse(req, FALSE), err |-> Nil],
      [response |-> Nil, err |-> TransportFailure(req)],
      [response |-> TransportResponse(req, TRUE), err |-> TransportFailure(req)],
      [response |-> Nil, err |-> Nil] }

\* The channels of workerChannels plus stopProcessing.
Channels == {"requestList", "receivedResponses", "processedResponses",
             "collectResponses", "stopProcessing"}

\* A channel has been closed.
closed(ch) == ch \in DOMAIN closes /\ closes[ch] > 0

\* newWorkerChannels() and make(chan struct{}): five open channels
newWorkerChannels == [ch \in Channels |-> 0]

\* requestsCount := len(bulkRequest.requests)
requestsCount == Len(requests)

\* Faulty variant of requestsNotFound: the empty batch is not turned away.
requestsNotFound_unchecked == FALSE

\* Do's guard requestsCount == 0
requestsNotFound == requestsCount = 0

\* Faulty variant of makeSlice: make([]T, 0, n), a capacity taken for a length.
makeSlice_capacityOnly(n) == <<>>

\* make([]T, n): n nil slots
makeSlice(n) == [i \in 1..n |-> Nil]

\* A worker's state: its position in the loop and the parcel it holds.
Worker(pc, parcel) == [pc |-> pc, parcel |-> parcel]
Receiving == Worker("recv", Nil)
Finished == Worker("done", Nil)

\* Faulty variant of Pool: a size below one is raised to one.
Pool_atLeastOne(n) == [e \in {Receiving} |-> IF n = 0 THEN 1 ELSE n]

\* The pool of n workers a for loop of go statements starts.
Pool(n) == IF n = 0 THEN EmptyBag ELSE [e \in {Receiving} |-> n]

\* The pool after one worker in state old has moved to state new.
Step(pool, old, new) == (pool (-) SetToBag({old})) (+) SetToBag({new})

\* The workers of a pool at position pc.
At(pool, pc) == {e \in BagToSet(pool) : e.pc = pc}

\* sync.WaitGroup.Wait() on a pool's wait group returns.
AllDone(pool) == \A e \in BagToSet(pool) : e.pc = "done"

-----------------------------------------------------------------------------
\* Pure functions of bulk_request.go and bulk_client.go.

\* Faulty variant of replaceResponseAtIndex: the response goes to the next
\* free slot, in order of arrival, instead of the slot of its index.
replaceResponseAtIndex_arrivalOrder(b, response, index) ==
    LET free == {i \in DOMAIN b.responses :
                   b.responses[i] = Nil /\ b.errors[i] = Nil}
        slot == IF free = {} THEN index + 1
                ELSE CHOOSE i \in free : \A j \in free : i <= j
    IN [responses |-> [b.responses EXCEPT ![slot] = response],
        errors    |-> [b.errors EXCEPT ![slot] = Nil]]

\* bulkRequest.replaceResponseAtIndex on the pair (responses, errors)
replaceResponseAtIndex(b, response, index) ==
    [responses |-> [b.responses EXCEPT ![index + 1] = response],
     errors    |-> [b.errors EXCEPT ![index + 1] = Nil]]

\* bulkRequest.replaceErrorAtIndex on the pair (responses, errors)
replaceErrorAtIndex(b, err, index) ==
    [responses |-> [b.responses EXCEPT ![index + 1] = Nil],
     errors    |-> [b.errors EXCEPT ![index + 1] = err]]

\* Faulty variant of addRequestIgnoredErrors: the loop body never runs.
addRequestIgnoredErrors_skipped(b) == b

\* Faulty variant of addRequestIgnoredErrors: the test b.errors[i] == nil is
\* left out, so every slot without a response is marked Ignored.
addRequestIgnoredErrors_anyNilResponse(b) ==
    [responses |-> b.responses,
     errors    |-> [i \in DOMAIN b.errors |->
                      IF i \in DOMAIN b.responses /\ b.responses[i] = Nil
                      THEN ErrIgnored ELSE b.errors[i]]]

\* bulkRequest.addRequestIgnoredErrors on the pair (responses, errors)
addRequestIgnoredErrors(b) ==
    [responses |-> b.responses,
     errors    |-> [i \in DOMAIN b.errors |->
                      IF i \in DOMAIN b.responses
                         /\ b.responses[i] = Nil /\ b.errors[i] = Nil
                      THEN ErrIgnored ELSE b.errors[i]]]

\* The for loop of completionListener over the received list.
RECURSIVE writeParcels(_, _)
writeParcels(b, list) ==
    IF list = <<>> THEN b
    ELSE LET resParcel == Head(list)
             nb == IF resParcel.err # Nil
                   THEN replaceErrorAtIndex(b, resParcel.err, resParcel.index)
                   ELSE replaceResponseAtIndex(b, resParcel.response, resParcel.index)
         IN writeParcels(nb, Tail(list))

\* The http.Response parseResponse builds: the buffered body and the request
\* detached from the client's context.
NewResponse(res) ==
    [tag |-> "response", of |-> res.request.id, readable |-> TRUE,
     buffered |-> TRUE]

\* Faulty variant of parseResponse: the test res.response == nil comes first,
\* ahead of the tests of res.err.
parseResponse_nilResponseFirst(ctx, res) ==
    IF res.response = Nil
    THEN [response |-> Nil, err |-> [tag |-> "ProtocolError"], index |-> res.index]
    ELSE IF res.err # Nil /\ (ctx = "canceled" \/ ctx = "deadline")
    THEN [response |-> Nil, err |-> ErrIgnored, index |-> res.index]
    ELSE IF res.err # Nil
    THEN [response |-> Nil,
          err |-> [tag |-> "TransportError", cause |-> res.err],
          index |-> res.index]
    ELSE IF ~res.response.readable
    THEN [response |-> Nil,
          err |-> [tag |-> "BodyReadError", of |-> res.response.of],
          index |-> res.index]
    ELSE [response |-> NewResponse(res), err |-> Nil, index |-> res.index]

\* Faulty variant of parseResponse: the error returns leave the index out of
\* the requestFlow, so it is the zero value.
parseResponse_indexDropped(ctx, res) ==
    IF res.err # Nil /\ (ctx = "canceled" \/ ctx = "deadline")
    THEN [response |-> Nil, err |-> ErrIgnored, index |-> 0]
    ELSE IF res.err # Nil
    THEN [response |-> Nil,
          err |-> [tag |-> "TransportError", cause |-> res.err],
          index |-> 0]
    ELSE IF res.response = Nil
    THEN [response |-> Nil, err |-> [tag |-> "ProtocolError"], index |-> 0]
    ELSE IF ~res.response.readable
    THEN [response |-> Nil,
          err |-> [tag |-> "BodyReadError", of |-> res.response.of],
          index |-> 0]
    ELSE [response |-> NewResponse(res), err |-> Nil, index |-> res.index]

\* Faulty variant of parseResponse: every transport error is taken for an
\* effect of the scope, without a look at ctx.Err().
parseResponse_errorMeansIgnored(ctx, res) ==
    IF res.err # Nil
    THEN [response |-> Nil, err |-> ErrIgnored, index |-> res.index]
    ELSE IF res.response = Nil
    THEN [response |-> Nil, err |-> [tag |-> "ProtocolError"], index |-> res.index]
    ELSE IF ~res.response.readable
    THEN [response |-> Nil,
          err |-> [tag |-> "BodyReadError", of |-> res.response.of],
          index |-> res.index]
    ELSE [response |-> NewResponse(res), err |-> Nil, index |-> res.index]

\* Faulty variant of parseResponse: the test of ctx.Err() knows
\* context.Canceled only.
parseResponse_canceledOnly(ctx, res) ==
    IF res.err # Nil /\ ctx = "canceled"
    THEN [response |-> Nil, err |-> ErrIgnored, index |-> res.index]
    ELSE IF res.err # Nil
    THEN [response |-> Nil,
          err |-> [tag |-> "TransportError", cause |-> res.err],
          index |-> res.index]
    ELSE IF res.response = Nil
    THEN [response |-> Nil, err |-> [tag |-> "ProtocolError"], index |-> res.index]
    ELSE IF ~res.response.readable
    THEN [response |-> Nil,
          err |-> [tag |-> "BodyReadError", of |-> res.response.of],
          index |-> res.index]
    ELSE [response |-> NewResponse(res), err |-> Nil, index |-> res.index]

\* parseResponse(ctx, res), without the deferred Body.Close
parseResponse(ctx, res) ==
    IF res.err # Nil /\ (ctx = "canceled" \/ ctx = "deadline")
    THEN [response |-> Nil, err |-> ErrIgnored, index |-> res.index]
    ELSE IF res.err # Nil
    THEN [response |-> Nil,
          err |-> [tag |-> "TransportError", cause |-> res.err],
          index |-> res.index]
    ELSE IF res.response = Nil
    THEN [response |-> Nil, err |-> [tag |-> "ProtocolError"], index |-> res.index]
    ELSE IF ~res.response.readable
    THEN [response |-> Nil,
          err |-> [tag |-> "BodyReadError", of |-> res.response.of],
          index |-> res.index]
    ELSE [response |-> NewResponse(res), err |-> Nil, index |-> res.index]

\* Faulty variant of closeBodies: the test response != nil is left out, so a
\* nil slot is dereferenced.
closeBodies_noNilCheck(resps, counts) ==
    [closed |-> [i \in DOMAIN resps |->
                   IF resps[i] # Nil THEN counts[i] + 1 ELSE counts[i]],
     panic  |-> \E i \in DOMAIN resps : resps[i] = Nil]

\* The loop of CloseAllResponses over b.responses: Body.Close() on every
\* non-nil response (the bodies are the ioutil.NopCloser of parseResponse,
\* whose Close has no effect and no error); counts are the closes so far.
closeBodies(resps, counts) ==
    [closed |-> [i \in DOMAIN resps |->
                   IF resps[i] # Nil THEN counts[i] + 1 ELSE counts[i]],
     panic  |-> FALSE]

\* performRequests(reqParcel) for one outcome of HTTPClient.Do
performRequests(reqParcel, outcome) ==
    [request |-> reqParcel.request, response |-> outcome.response,
     err |-> outcome.err, index |-> reqParcel.index]

-----------------------------------------------------------------------------
\* NewBulkRequest(requests, Wd, Wp) with 0..MaxRequests requests; the pool
\* sizes are not validated.  No goroutine of the run exists yet.
Init ==
    /\ \E n \in 0..MaxRequests : requests = [i \in 1..n |-> Request(i - 1)]
    /\ responses = <<>>
    /\ errors = <<>>
    /\ dispatchRequestsWorkers \in 0..MaxWorkers
    /\ responseProcessorWorkers \in 0..MaxWorkers
    /\ ctxErr = "nil"
    /\ callerPc = "idle"
    /\ delivered = <<>>
    /\ ret = Nil
    /\ closes = <<>>
    /\ collectorPc = "none"
    /\ responseList = <<>>
    /\ orchPc = "none"
    /\ publishPc = "none"
    /\ publishIndex = 0
    /\ fire = EmptyBag
    /\ proc = EmptyBag
    /\ raw = <<>>
    /\ calls = <<>>
    /\ bodyClosed = <<>>
    /\ ctxAtStart = "nil"
    /\ ctxAtCall = <<>>
    /\ respClosed = <<>>
    /\ closeCalls = 0
    /\ closePanic = FALSE

\* The environment ends the cancellable scope: the cancel() of the
\* context.WithCancel the client was built with.
Cancel ==
    /\ ctxErr = "nil"
    /\ ctxErr' = "canceled"
    /\ UNCHANGED <<batchConf, batchOut, callerVars, closes, collectorVars,
                   orchPc, publishVars, fire, proc, history>>

\* The cancellable scope ends by itself: the deadline of the context the
\* client was built with passes, and ctx.Err() is context.DeadlineExceeded.
Deadline ==
    /\ ctxErr = "nil"
    /\ ctxErr' = "deadline"
    /\ UNCHANGED <<batchConf, batchOut, callerVars, closes, collectorVars,
                   orchPc, publishVars, fire, proc, history>>

\* BulkRequest.AddRequest, before the run
AddRequest ==
    /\ callerPc = "idle"
    /\ requestsCount < MaxRequests
    /\ requests' = Append(requests, Request(requestsCount))
    /\ UNCHANGED <<dispatchRequestsWorkers, responseProcessorWorkers, batchOut,
                   ctxErr, callerVars, closes, collectorVars, orchPc,
                   publishVars, fire, proc, history>>

\* BulkHTTPClient.Do up to the call of completionListener: the empty-batch
\* return, or the allocation of the output arrays and the two go statements.
Do ==
    /\ callerPc = "idle"
    /\ ctxAtStart' = ctxErr
    /\ IF requestsNotFound
       THEN /\ ret' = [responses |-> <<>>, errors |-> <<ErrRequestsNotFound>>]
            /\ callerPc' = "returned"
            /\ UNCHANGED <<batchOut, closes, collectorPc, orchPc, raw, calls,
                           bodyClosed, ctxAtCall, respClosed, closeCalls>>
       ELSE /\ responses' = makeSlice(requestsCount)
            /\ errors' = makeSlice(requestsCount)
            /\ closes' = newWorkerChannels
            /\ collectorPc' = IF 0 < requestsCount THEN "collect" ELSE "deliver"
            /\ orchPc' = "spawn"
            /\ callerPc' = "listen"
            /\ raw' = [i \in 1..requestsCount |-> Nil]
            /\ calls' = [i \in 1..requestsCount |-> 0]
            /\ bodyClosed' = [i \in 1..requestsCount |-> 0]
            /\ ctxAtCall' = [i \in 1..requestsCount |-> "none"]
            /\ respClosed' = [i \in 1..requestsCount |-> 0]
            /\ closeCalls' = 0
            /\ UNCHANGED ret
    /\ UNCHANGED <<batchConf, ctxErr, delivered, responseList, publishVars,
                   fire, proc, closePanic>>

\* Faulty variant of orchestrateSpawn: one worker per request in each pool,
\* whatever the configured sizes.
orchestrateSpawn_perRequest ==
    /\ orchPc = "spawn"
    /\ orchPc' = "waitPublish"
    /\ publishPc' = IF 0 < requestsCount THEN "send" ELSE "done"
    /\ publishIndex' = 0
    /\ fire' = Pool(requestsCount)
    /\ proc' = Pool(requestsCount)
    /\ UNCHANGED <<batchConf, batchOut, ctxErr, callerVars, closes,
                   collectorVars, history>>

\* orchestrateProcesses: the go statements for the publisher and both pools
orchestrateSpawn ==
    /\ orchPc = "spawn"
    /\ orchPc' = "waitPublish"
    /\ publishPc' = IF 0 < requestsCount THEN "send" ELSE "done"
    /\ publishIndex' = 0
    /\ fire' = Pool(dispatchRequestsWorkers)
    /\ proc' = Pool(responseProcessorWorkers)
    /\ UNCHANGED <<batchConf, batchOut, ctxErr, callerVars, closes,
                   collectorVars, history>>

\* Faulty variant of closeRequestList: close(requestList) without
\* publishWg.Wait().
closeRequestList_noWait ==
    /\ orchPc = "waitPublish"
    /\ closes' = [closes EXCEPT !["requestList"] = @ + 1]
    /\ orchPc' = "waitDispatch"
    /\ UNCHANGED <<batchConf, batchOut, ctxErr, callerVars, collectorVars,
                   publishVars, fire, proc, history>>

\* orchestrateProcesses: publishWg.Wait(); close(requestList)
closeRequestList ==
    /\ orchPc = "waitPublish"
    /\ publishPc = "done"
    /\ closes' = [closes EXCEPT !["requestList"] = @ + 1]
    /\ orchPc' = "waitDispatch"
    /\ UNCHANGED <<batchConf, batchOut, ctxErr, callerVars, collectorVars,
                   publishVars, fire, proc, history>>

\* Faulty variant of closeReceivedResponses: close(receivedResponses) without
\* dispatchingWg.Wait().
closeReceivedResponses_noWait ==
    /\ orchPc = "waitDispatch"
    /\ closes' = [closes EXCEPT !["receivedResponses"] = @ + 1]
    /\ orchPc' = "waitProcess"
    /\ UNCHANGED <<batchConf, batchOut, ctxErr, callerVars, collectorVars,
                   publishVars, fire, proc, history>>

\* orchestrateProcesses: dispatchingWg.Wait(); close(receivedResponses)
closeReceivedResponses ==
    /\ orchPc = "waitDispatch"
    /\ AllDone(fire)
    /\ closes' = [closes EXCEPT !["receivedResponses"] = @ + 1]
    /\ orchPc' = "waitProcess"
    /\ UNCHANGED <<batchConf, batchOut, ctxErr, callerVars, collectorVars,
                   publishVars, fire, proc, history>>

\* Faulty variant of closeProcessedResponses: close(processedResponses)
\* without processingWg.Wait().
closeProcessedResponses_noWait ==
    /\ orchPc = "waitProcess"
    /\ closes' = [closes EXCEPT !["processedResponses"] = @ + 1]
    /\ orchPc' = "done"
    /\ UNCHANGED <<batchConf, batchOut, ctxErr, callerVars, collectorVars,
                   publishVars, fire, proc, history>>

\* orchestrateProcesses: processingWg.Wait(); close(processedResponses)
closeProcessedResponses ==
    /\ orchPc = "waitProcess"
    /\ AllDone(proc)
    /\ closes' = [closes EXCEPT !["processedResponses"] = @ + 1]
    /\ orchPc' = "done"
    /\ UNCHANGED <<batchConf, batchOut, ctxErr, callerVars, collectorVars,
                   publishVars, fire, proc, history>>

\* Faulty variant of publishSend: the loop may send a request again, as long
\* as no transport call for it has returned, before it moves on.
publishSend_resend ==
    /\ publishPc = "send"
    /\ BagIn(Receiving, fire)
    /\ ~closed("requestList")
    /\ \E next \in {publishIndex, publishIndex + 1} :
         /\ next = publishIndex => calls[publishIndex + 1] = 0
         /\ publishIndex' = next
         /\ publishPc' = IF next = requestsCount THEN "done" ELSE "send"
    /\ fire' = Step(fire, Receiving,
                    Worker("call", [request |-> requests[publishIndex + 1],
                                    index |-> publishIndex]))
    /\ UNCHANGED <<batchConf, batchOut, ctxErr, callerVars, closes,
                   collectorVars, orchPc, proc, history>>

\* publishAllRequests, case requestList <- reqParcel, met by the
\* `range reqList` receive of a dispatch worker
publishSend ==
    /\ publishPc = "send"
    /\ BagIn(Receiving, fire)
    /\ ~closed("requestList")
    /\ fire' = Step(fire, Receiving,
                    Worker("call", [request |-> requests[publishIndex + 1],
                                    index |-> publishIndex]))
    /\ publishIndex' = publishIndex + 1
    /\ publishPc' = IF publishIndex + 1 = requestsCount THEN "done" ELSE "send"
    /\ UNCHANGED <<batchConf, batchOut, ctxErr, callerVars, closes,
                   collectorVars, orchPc, proc, history>>

\* Faulty variant of publishStop: the break leaves the select only, and the
\* loop goes on with the next request.
publishStop_breakSelect ==
    /\ publishPc = "send"
    /\ closed("stopProcessing")
    /\ publishIndex' = publishIndex + 1
    /\ publishPc' = IF publishIndex + 1 = requestsCount THEN "done" ELSE "send"
    /\ UNCHANGED <<batchConf, batchOut, ctxErr, callerVars, closes,
                   collectorVars, orchPc, fire, proc, history>>

\* publishAllRequests, case <-stopProcessing
publishStop ==
    /\ publishPc = "send"
    /\ closed("stopProcessing")
    /\ publishPc' = "done"
    /\ UNCHANGED <<batchConf, batchOut, ctxErr, callerVars, closes,
                   collectorVars, orchPc, publishIndex, fire, proc, history>>

\* fireRequests: `range reqList` ends on the closed channel; fireWg.Done()
fireClosed ==
    /\ BagIn(Receiving, fire)
    /\ closed("requestList")
    /\ fire' = Step(fire, Receiving, Finished)
    /\ UNCHANGED <<batchConf, batchOut, ctxErr, callerVars, closes,
                   collectorVars, orchPc, publishVars, proc, history>>

\* fireRequests: result := b.performRequests(reqParcel); the transport
\* returns any of its outcomes
firePerform(w) ==
    /\ w \in At(fire, "call")
    /\ \E outcome \in TransportOutcomes(w.parcel.request) :
         /\ fire' = Step(fire, w,
                         Worker("send", performRequests(w.parcel, outcome)))
         /\ raw' = [raw EXCEPT ![w.parcel.index + 1] = outcome]
    /\ calls' = [calls EXCEPT ![w.parcel.index + 1] = @ + 1]
    /\ ctxAtCall' = [ctxAtCall EXCEPT ![w.parcel.index + 1] = ctxErr]
    /\ UNCHANGED <<batchConf, batchOut, ctxErr, callerVars, closes,
                   collectorVars, orchPc, publishVars, proc, bodyClosed,
                   ctxAtStart, released>>

\* Faulty variant of fireSend: the worker leaves its loop after the hand-off
\* (a break that belongs to the stop case only).
fireSend_break(w) ==
    /\ w \in At(fire, "send")
    /\ BagIn(Receiving, proc)
    /\ ~closed("receivedResponses")
    /\ proc' = Step(proc, Receiving, Worker("parse", w.parcel))
    /\ fire' = Step(fire, w, Finished)
    /\ UNCHANGED <<batchConf, batchOut, ctxErr, callerVars, closes,
                   collectorVars, orchPc, publishVars, history>>

\* fireRequests, case receivedResponses <- result, met by the
\* `range resList` receive of a processing worker
fireSend(w) ==
    /\ w \in At(fire, "send")
    /\ BagIn(Receiving, proc)
    /\ ~closed("receivedResponses")
    /\ proc' = Step(proc, Receiving, Worker("parse", w.parcel))
    /\ fire' = Step(fire, w, Receiving)
    /\ UNCHANGED <<batchConf, batchOut, ctxErr, callerVars, closes,
                   collectorVars, orchPc, publishVars, history>>

\* Faulty variant of fireStop: the worker breaks without draining and
\* closing the body it holds.
fireStop_noClose(w) ==
    /\ w \in At(fire, "send")
    /\ closed("stopProcessing")
    /\ fire' = Step(fire, w, Finished)
    /\ UNCHANGED <<batchConf, batchOut, ctxErr, callerVars, closes,
                   collectorVars, orchPc, publishVars, proc, history>>

\* fireRequests, case <-stopProcessing: drain and close the body, break
fireStop(w) ==
    /\ w \in At(fire, "send")
    /\ closed("stopProcessing")
    /\ bodyClosed' = IF w.parcel.response # Nil
                     THEN [bodyClosed EXCEPT ![w.parcel.index + 1] = @ + 1]
                     ELSE bodyClosed
    /\ fire' = Step(fire, w, Finished)
    /\ UNCHANGED <<batchConf, batchOut, ctxErr, callerVars, closes,
                   collectorVars, orchPc, publishVars, proc, raw, calls,
                   ctxAtStart, ctxAtCall, released>>

\* processRequests: `range resList` ends on the closed channel; processWg.Done()
processClosed ==
    /\ BagIn(Receiving, proc)
    /\ closed("receivedResponses")
    /\ proc' = Step(proc, Receiving, Finished)
    /\ UNCHANGED <<batchConf, batchOut, ctxErr, callerVars, closes,
                   collectorVars, orchPc, publishVars, fire, history>>

\* processRequests: result := b.parseResponse(ctx, resParcel), with the
\* deferred res.response.Body.Close()
processParse(p) ==
    /\ p \in At(proc, "parse")
    /\ LET res == p.parcel
           result == parseResponse(ctxErr, res)
       IN /\ proc' = Step(proc, p, Worker("send", result))
          /\ bodyClosed' = IF res.response # Nil
                           THEN [bodyClosed EXCEPT ![res.index + 1] = @ + 1]
                           ELSE bodyClosed
    /\ UNCHANGED <<batchConf, batchOut, ctxErr, callerVars, closes,
                   collectorVars, orchPc, publishVars, fire, raw, calls,
                   ctxAtStart, ctxAtCall, released>>

\* Faulty variant of processSend: the collector's loop runs while
\* done < len(requests) - 1.
processSend_offByOne(p) ==
    /\ p \in At(proc, "send")
    /\ collectorPc = "collect"
    /\ ~closed("processedResponses")
    /\ responseList' = Append(responseList, p.parcel)
    /\ collectorPc' = IF Len(responseList) + 1 < requestsCount - 1
                      THEN "collect" ELSE "deliver"
    /\ proc' = Step(proc, p, Receiving)
    /\ UNCHANGED <<batchConf, batchOut, ctxErr, callerVars, closes, orchPc,
                   publishVars, fire, history>>

\* processRequests, case processedResponses <- result, met by the collector's
\* case resParcel, isOpen := <-processedResponses with isOpen true
processSend(p) ==
    /\ p \in At(proc, "send")
    /\ collectorPc = "collect"
    /\ ~closed("processedResponses")
    /\ responseList' = Append(responseList, p.parcel)
    /\ collectorPc' = IF Len(responseList) + 1 < requestsCount
                      THEN "collect" ELSE "deliver"
    /\ proc' = Step(proc, p, Receiving)
    /\ UNCHANGED <<batchConf, batchOut, ctxErr, callerVars, closes, orchPc,
                   publishVars, fire, history>>

\* Faulty variant of processStop: the send is a plain statement, with no
\* select on stopProcessing.
processStop_noSelect(p) ==
    /\ FALSE
    /\ UNCHANGED vars

\* Faulty variant of processStop: the select has a default case that breaks,
\* so a worker may give up its outcome before any stop signal.
processStop_default(p) ==
    /\ p \in At(proc, "send")
    /\ proc' = Step(proc, p, Finished)
    /\ UNCHANGED <<batchConf, batchOut, ctxErr, callerVars, closes,
                   collectorVars, orchPc, publishVars, fire, history>>

\* processRequests, case <-stopProcessing
processStop(p) ==
    /\ p \in At(proc, "send")
    /\ closed("stopProcessing")
    /\ proc' = Step(proc, p, Finished)
    /\ UNCHANGED <<batchConf, batchOut, ctxErr, callerVars, closes,
                   collectorVars, orchPc, publishVars, fire, history>>

\* Faulty variant of collectBreak: the select has no case <-ctx.Done(), the
\* loop ends on the closed channel only.
collectBreak_closedOnly ==
    /\ collectorPc = "collect"
    /\ closed("processedResponses")
    /\ collectorPc' = "deliver"
    /\ UNCHANGED <<batchConf, batchOut, ctxErr, callerVars, closes,
                   responseList, orchPc, publishVars, fire, proc, history>>

\* Faulty variant of collectBreak: the select has a default case that breaks.
collectBreak_default ==
    /\ collectorPc = "collect"
    /\ collectorPc' = "deliver"
    /\ UNCHANGED <<batchConf, batchOut, ctxErr, callerVars, closes,
                   responseList, orchPc, publishVars, fire, proc, history>>

\* collectProcessedResponses: break LOOP, on case <-ctx.Done() or on
\* processedResponses found closed
collectBreak ==
    /\ collectorPc = "collect"
    /\ ctxErr # "nil" \/ closed("processedResponses")
    /\ collectorPc' = "deliver"
    /\ UNCHANGED <<batchConf, batchOut, ctxErr, callerVars, closes,
                   responseList, orchPc, publishVars, fire, proc, history>>

\* Faulty variant of collectDeliver: the collector writes the outcomes into
\* the batch itself before it hands its list over.
collectDeliver_writes ==
    /\ collectorPc = "deliver"
    /\ callerPc = "listen"
    /\ ~closed("collectResponses")
    /\ LET b == writeParcels([responses |-> responses, errors |-> errors],
                             responseList)
       IN /\ responses' = b.responses
          /\ errors' = b.errors
    /\ delivered' = responseList
    /\ responseList' = <<>>
    /\ collectorPc' = "done"
    /\ callerPc' = "write"
    /\ UNCHANGED <<batchConf, ctxErr, ret, closes, orchPc,
                   publishVars, fire, proc, history>>

\* collectProcessedResponses: collectResponses <- responseList, met by
\* completionListener's responses := <-collectResponses; the collector
\* returns and its local is gone
collectDeliver ==
    /\ collectorPc = "deliver"
    /\ callerPc = "listen"
    /\ ~closed("collectResponses")
    /\ delivered' = responseList
    /\ responseList' = <<>>
    /\ collectorPc' = "done"
    /\ callerPc' = "write"
    /\ UNCHANGED <<batchConf, batchOut, ctxErr, ret, closes, orchPc,
                   publishVars, fire, proc, history>>

\* completionListener after the receive: the loop of writes,
\* close(collectResponses), addRequestIgnoredErrors
completionListener ==
    /\ callerPc = "write"
    /\ LET b == addRequestIgnoredErrors(
                   writeParcels([responses |-> responses, errors |-> errors],
                                delivered))
       IN /\ responses' = b.responses
          /\ errors' = b.errors
    /\ closes' = [closes EXCEPT !["collectResponses"] = @ + 1]
    /\ callerPc' = "return"
    /\ UNCHANGED <<batchConf, ctxErr, delivered, ret, collectorVars, orchPc,
                   publishVars, fire, proc, history>>

\* Faulty variant of DoReturn: Do returns without the deferred
\* close(stopProcessing).
DoReturn_noClose ==
    /\ callerPc = "return"
    /\ ret' = [responses |-> responses, errors |-> errors]
    /\ callerPc' = "returned"
    /\ delivered' = <<>>
    /\ UNCHANGED <<batchConf, batchOut, ctxErr, closes, collectorVars,
                   orchPc, publishVars, fire, proc, history>>

\* Do: return bulkRequest.responses, bulkRequest.errors, with the deferred
\* close(stopProcessing); completionListener's local is gone
DoReturn ==
    /\ callerPc = "return"
    /\ ret' = [responses |-> responses, errors |-> errors]
    /\ closes' = [closes EXCEPT !["stopProcessing"] = @ + 1]
    /\ callerPc' = "returned"
    /\ delivered' = <<>>
    /\ UNCHANGED <<batchConf, batchOut, ctxErr, collectorVars,
                   orchPc, publishVars, fire, proc, history>>

\* Faulty variant of CloseAllResponses: every closed response is dropped
\* from its slot.
CloseAllResponses_dropClosed ==
    /\ callerPc \in {"idle", "returned"}
    /\ closeCalls < MaxCloseCalls
    /\ LET done == closeBodies(responses, respClosed)
       IN /\ respClosed' = done.closed
          /\ closePanic' = (closePanic \/ done.panic)
    /\ responses' = [i \in DOMAIN responses |-> Nil]
    /\ closeCalls' = closeCalls + 1
    /\ UNCHANGED <<batchConf, errors, ctxErr, callerVars, closes, collectorVars,
                   orchPc, publishVars, fire, proc, raw, calls, bodyClosed,
                   ctxAtStart, ctxAtCall>>

\* BulkRequest.CloseAllResponses, called by the owner of the batch before a
\* run or after Do has returned
CloseAllResponses ==
    /\ callerPc \in {"idle", "returned"}
    /\ closeCalls < MaxCloseCalls
    /\ LET done == closeBodies(responses, respClosed)
       IN /\ respClosed' = done.closed
          /\ closePanic' = (closePanic \/ done.panic)
    /\ closeCalls' = closeCalls + 1
    /\ UNCHANGED <<batchConf, batchOut, ctxErr, callerVars, closes,
                   collectorVars, orchPc, publishVars, fire, proc, raw, calls,
                   bodyClosed, ctxAtStart, ctxAtCall>>

\* The steps of the goroutines of a run.
Pipeline ==
    \/ orchestrateSpawn
    \/ closeRequestList
    \/ closeReceivedResponses
    \/ closeProcessedResponses
    \/ publishSend
    \/ publishStop
    \/ fireClosed
    \/ \E w \in BagToSet(fire) : firePerform(w)
    \/ \E w \in BagToSet(fire) : fireSend(w)
    \/ \E w \in BagToSet(fire) : fireStop(w)
    \/ processClosed
    \/ \E p \in BagToSet(proc) : processParse(p)
    \/ \E p \in BagToSet(proc) : processSend(p)
    \/ \E p \in BagToSet(proc) : processStop(p)
    \/ collectBreak
    \/ collectDeliver
    \/ completionListener
    \/ DoReturn

Next ==
    \/ Cancel
    \/ Deadline
    \/ AddRequest
    \/ Do
    \/ CloseAllResponses
    \/ Pipeline

Spec == Init /\ [][Next]_vars

\* Fair scheduling of the goroutines: as long as some goroutine can take a
\* step, one does.  The environment (Cancel, Deadline, AddRequest, the calls
\* of Do and of CloseAllResponses) is under no obligation.
FairSpec == Spec /\ WF_vars(Pipeline)

\* The steps of the collector and of the caller that need no other goroutine:
\* the collector's break, its hand-over of the list, and the caller's
\* post-collector steps.
Delivery ==
    \/ collectBreak
    \/ collectDeliver
    \/ completionListener
    \/ DoReturn

\* Fair scheduling of the collector and of the caller only: the publisher,
\* the workers, the orchestrator and the transport may stall for ever.
DeliveryFairSpec == Spec /\ WF_vars(Delivery)
-----------------------------------------------------------------------------
\* Vocabulary of the properties.

\* Do has written the batch's output arrays (and may have returned).
Written == callerPc \in {"return", "returned"}

\* Do has returned from a run of the pipeline.
RunReturned == callerPc = "returned" /\ requestsCount >= 1

\* The cancellable scope has not ended so far.
ScopeLive == ctxErr = "nil"

\* The raw outcome of the request at slot i (slots count from 1), as
\* performRequests hands it on.
RawOf(i) ==
    performRequests([request |-> requests[i], index |-> i - 1], raw[i])

\* The slot i of the output arrays as a pair.
Slot(i) == [response |-> responses[i], err |-> errors[i]]

\* The two slots a finalized outcome fills.
SlotOf(fin) == [response |-> fin.response, err |-> fin.err]

-----------------------------------------------------------------------------
\* C1: after Do returns for a batch of N >= 1 requests, for every index
\* exactly one of responses[i], errors[i] is non-nil, whatever the
\* interleaving, the transport outcomes and the fate of the scope.
C1_ExactlyOnePopulated ==
    RunReturned =>
        \A i \in 1..requestsCount :
            /\ i \in DOMAIN ret.responses /\ i \in DOMAIN ret.errors
            /\ (ret.responses[i] = Nil) # (ret.errors[i] = Nil)

\* C1 witness: a returned run of two requests cut short by the scope, with
\* one slot holding a response and another the Ignored fill-in.
C1_Witness ==
    /\ RunReturned
    /\ requestsCount = 2
    /\ ctxErr # "nil"
    /\ \E i, j \in 1..requestsCount :
         /\ ret.responses[i] # Nil /\ ret.errors[i] = Nil
         /\ ret.responses[j] = Nil /\ ret.errors[j] = ErrIgnored

\* C2: whatever Do writes into slot i is the finalized outcome of the request
\* that was at position i: a response answers that request, an error wraps
\* that request's failure, and the slot is the classification of that
\* request's raw outcome (or Ignored), in whatever order the calls completed.
C2_OrderPreserved ==
    (Written /\ requestsCount >= 1) =>
        \A i \in 1..requestsCount :
            /\ responses[i] # Nil => responses[i].of = requests[i].id
            /\ (errors[i] # Nil /\ errors[i].tag = "TransportError")
                  => errors[i].cause.of = requests[i].id
            /\ (errors[i] # Nil /\ errors[i].tag = "BodyReadError")
                  => errors[i].of = requests[i].id
            /\ IF raw[i] = Nil
               THEN Slot(i) = [response |-> Nil, err |-> ErrIgnored]
               ELSE Slot(i) \in { SlotOf(parseResponse("nil", RawOf(i))),
                                  SlotOf(parseResponse("canceled", RawOf(i))),
                                  [response |-> Nil, err |-> ErrIgnored] }

\* C2 witness: the outcome of the second request reached the collector before
\* that of the first, and each response sits in the slot of its request.
C2_Witness ==
    /\ callerPc = "return"
    /\ Len(delivered) = 2
    /\ delivered[1].index = 1 /\ delivered[2].index = 0
    /\ responses[1] # Nil /\ responses[1].of = requests[1].id
    /\ responses[2] # Nil /\ responses[2].of = requests[2].id

\* C3 as stated: for any batch of size N, N = 0 included, Do returns two
\* arrays each of length exactly N.
C3_Original ==
    callerPc = "returned" =>
        /\ Len(ret.responses) = requestsCount
        /\ Len(ret.errors) = requestsCount

\* C3 amended: for N >= 1 Do returns two arrays each of length exactly N; for
\* N = 0 it returns no responses and an errors array of length 1 that holds
\* RequestsNotFound.
C3_Lengths ==
    callerPc = "returned" =>
        IF requestsCount >= 1
        THEN /\ Len(ret.responses) = requestsCount
             /\ Len(ret.errors) = requestsCount
        ELSE /\ Len(ret.responses) = 0
             /\ ret.errors = <<ErrRequestsNotFound>>

\* C3 witness: a returned run of two requests with two arrays of length two.
C3_Witness ==
    /\ RunReturned
    /\ requestsCount = 2
    /\ Len(ret.responses) = 2 /\ Len(ret.errors) = 2

\* C4: Do on a batch with zero requests fails at once with RequestsNotFound:
\* its only step is the return; no collector, orchestrator, publisher or
\* worker is started, the transport is never invoked, no channel is made and
\* the batch's responses and errors fields stay as NewBulkRequest left them.
C4_EmptyBatch ==
    (requestsCount = 0 /\ callerPc # "idle") =>
        /\ callerPc = "returned"
        /\ ret = [responses |-> <<>>, errors |-> <<ErrRequestsNotFound>>]
        /\ collectorPc = "none" /\ orchPc = "none" /\ publishPc = "none"
        /\ fire = EmptyBag /\ proc = EmptyBag
        /\ DOMAIN calls = {} /\ DOMAIN raw = {}
        /\ DOMAIN closes = {}
        /\ responses = <<>> /\ errors = <<>>

\* C4 witness: Do has been called on an empty batch and has returned.
C4_Witness ==
    /\ requestsCount = 0
    /\ callerPc = "returned"
    /\ ret.errors = <<ErrRequestsNotFound>>
\* C5: if the scope never ends during a run, every index whose transport call
\* returned an error ends with a nil response and a TransportError wrapping
\* that failure, never ProtocolError and never Ignored.
C5_TransportErrorReported ==
    (Written /\ ScopeLive /\ requestsCount >= 1) =>
        \A i \in 1..requestsCount :
            (raw[i] # Nil /\ raw[i].err # Nil) =>
                /\ responses[i] = Nil
                /\ errors[i] = [tag |-> "TransportError", cause |-> raw[i].err]

\* C5 witness: the scope is live, Do has written the arrays, and a call that
\* returned an error together with a response is reported as TransportError.
C5_Witness ==
    /\ Written /\ ScopeLive
    /\ \E i \in 1..requestsCount :
         /\ raw[i] # Nil /\ raw[i].err # Nil /\ raw[i].response # Nil
         /\ responses[i] = Nil
         /\ errors[i] = [tag |-> "TransportError", cause |-> raw[i].err]

\* C6: a slot is marked Ignored only in an aborted run: while the scope has
\* not ended the Processing stage emits no Ignored outcome, the list the
\* collector delivers covers every index (addRequestIgnoredErrors finds no
\* unresolved slot), and after Do has written the arrays no index is Ignored.
C6_NoIgnoredWhileScopeLive ==
    ScopeLive =>
        /\ \A p \in At(proc, "send") : p.parcel.err # ErrIgnored
        /\ \A k \in DOMAIN responseList : responseList[k].err # ErrIgnored
        /\ \A k \in DOMAIN delivered : delivered[k].err # ErrIgnored
        /\ callerPc = "write" =>
              {delivered[k].index : k \in DOMAIN delivered}
                  = 0..(requestsCount - 1)
        /\ Written => \A i \in DOMAIN errors : errors[i] # ErrIgnored

\* C6 witness: a returned run of two requests on one worker per pool, the
\* scope still live, the first failed by the transport and the second served.
C6_Witness ==
    /\ RunReturned /\ ScopeLive
    /\ requestsCount = 2
    /\ dispatchRequestsWorkers = 1 /\ responseProcessorWorkers = 1
    /\ errors[1] # Nil /\ errors[1].tag = "TransportError"
    /\ errors[2] = Nil /\ responses[2] # Nil

\* C7 as stated: a request whose outcome the Processing stage finalized as a
\* success or as a TransportError is never reported to the caller as Ignored.
\* A finalized outcome not yet handed to the collector is the parcel of a
\* processing worker at its send.
C7_Original ==
    callerPc = "return" =>
        \A p \in At(proc, "send") :
            (p.parcel.err = Nil \/ p.parcel.err.tag = "TransportError")
                => errors[p.parcel.index + 1] # ErrIgnored

\* C7 amended: an index is reported Ignored only if the scope ended before Do
\* returned and the collector did not receive a finalized outcome for it other
\* than Ignored; a request whose success or TransportError outcome the
\* collector received is reported with that outcome, never as Ignored.
C7_IgnoredOnlyIfNotCollected ==
    callerPc = "return" =>
        /\ \A i \in 1..requestsCount :
              errors[i] = ErrIgnored =>
                  /\ ~ScopeLive
                  /\ \A k \in DOMAIN delivered :
                        delivered[k].index = i - 1
                            => delivered[k].err = ErrIgnored
        /\ \A k \in DOMAIN delivered :
              delivered[k].err # ErrIgnored
                  => Slot(delivered[k].index + 1) = SlotOf(delivered[k])

\* C7 witness: Do has written the arrays; one success the collector received
\* is reported as a response, and another request is reported Ignored while a
\* processing worker still holds its finalized success.
C7_Witness ==
    /\ callerPc = "return"
    /\ \E k \in DOMAIN delivered :
         /\ delivered[k].err = Nil
         /\ responses[delivered[k].index + 1] = delivered[k].response
    /\ \E p \in At(proc, "send") :
         /\ p.parcel.err = Nil
         /\ errors[p.parcel.index + 1] = ErrIgnored

\* The slot the classification rules give a transport outcome while the scope
\* is live, from the outcome alone.
ExpectedSlot(outcome) ==
    IF outcome.err # Nil
    THEN [response |-> Nil,
          err |-> [tag |-> "TransportError", cause |-> outcome.err]]
    ELSE IF outcome.response = Nil
    THEN [response |-> Nil, err |-> [tag |-> "ProtocolError"]]
    ELSE IF ~outcome.response.readable
    THEN [response |-> Nil,
          err |-> [tag |-> "BodyReadError", of |-> outcome.response.of]]
    ELSE [response |-> [tag |-> "response", of |-> outcome.response.of,
                        readable |-> TRUE, buffered |-> TRUE],
          err |-> Nil]

\* The transport call of slot i returned a response and no error.
CallSucceeded(i) ==
    raw[i] # Nil /\ raw[i].err = Nil /\ raw[i].response # Nil

\* C8 as stated: when the scope never ends the arrays are a function of the
\* transport outcomes only, for every pair of pool sizes and every schedule,
\* with errors[i] = nil and responses[i] populated exactly for the indices
\* whose transport call succeeded.
C8_Original ==
    (Written /\ ScopeLive /\ requestsCount >= 1) =>
        \A i \in 1..requestsCount :
            /\ raw[i] # Nil
            /\ Slot(i) = ExpectedSlot(raw[i])
            /\ (errors[i] = Nil /\ responses[i] # Nil) <=> CallSucceeded(i)

\* C8 amended: when the scope never ends the arrays are a function of the
\* transport outcomes only, for every pair of pool sizes and every schedule,
\* with errors[i] = nil and responses[i] populated exactly for the indices
\* whose transport call returned a response and no error and whose response
\* body could be read in full.
C8_FunctionOfOutcomes ==
    (Written /\ ScopeLive /\ requestsCount >= 1) =>
        \A i \in 1..requestsCount :
            /\ raw[i] # Nil
            /\ Slot(i) = ExpectedSlot(raw[i])
            /\ (errors[i] = Nil /\ responses[i] # Nil)
                  <=> (CallSucceeded(i) /\ raw[i].response.readable)

\* C8 witness: a returned run of two requests on pools of one worker each,
\* the scope live; the first call succeeded with a body that fails to read
\* and is reported as an error, the second is reported as a response.
C8_Witness ==
    /\ RunReturned /\ ScopeLive
    /\ requestsCount = 2
    /\ dispatchRequestsWorkers = 1 /\ responseProcessorWorkers = 1
    /\ CallSucceeded(1) /\ ~raw[1].response.readable
    /\ errors[1] # Nil /\ errors[1].tag = "BodyReadError"
    /\ CallSucceeded(2) /\ errors[2] = Nil /\ responses[2] # Nil
\* Every goroutine a run started has returned.
Terminated ==
    /\ collectorPc = "done" /\ orchPc = "done" /\ publishPc = "done"
    /\ BagCardinality(fire) = dispatchRequestsWorkers /\ AllDone(fire)
    /\ BagCardinality(proc) = responseProcessorWorkers /\ AllDone(proc)

\* C9: for N >= 1, Wd >= 1, Wp >= 1 and a transport whose every call returns,
\* under fair scheduling a call of Do eventually returns, whatever N is
\* relative to the pool sizes.
C9_DoReturns ==
    (/\ callerPc = "listen"
     /\ dispatchRequestsWorkers >= 1
     /\ responseProcessorWorkers >= 1) ~> (callerPc = "returned")

\* C9 witness: Do has returned from a run of more requests than either pool
\* has workers, the scope still live.
C9_Witness ==
    /\ RunReturned /\ ScopeLive
    /\ requestsCount > dispatchRequestsWorkers
    /\ requestsCount > responseProcessorWorkers
    /\ dispatchRequestsWorkers >= 1 /\ responseProcessorWorkers >= 1
    /\ \A i \in 1..requestsCount : raw[i] # Nil

\* C10: after Do returns from a run, normally or early because the scope
\* ended, the publisher, every dispatch worker, every processing worker, the
\* collector and the orchestrator all eventually return, given that every
\* transport call in flight returns.
C10_NoLeakedTasks ==
    RunReturned ~> Terminated

\* C10 witness: Do returned early with a successful call dropped as Ignored,
\* and every goroutine of the run has returned.
C10_Witness ==
    /\ RunReturned /\ Terminated
    /\ \E i \in 1..requestsCount :
         /\ CallSucceeded(i) /\ raw[i].response.readable
         /\ ret.errors[i] = ErrIgnored

\* The indices of the outcomes completionListener received.
DeliveredIndices == {delivered[k].index : k \in DOMAIN delivered}

\* C11: once the scope has ended during a run, the collector stops
\* accumulating and hands over what it has gathered, Do writes the arrays with
\* every index outside the delivered set marked Ignored, and Do returns; this
\* needs the collector and the caller to be scheduled and nothing else: no
\* transport call has to return and no publisher or worker has to move.
C11_EarlyDelivery ==
    /\ (callerPc = "listen" /\ ~ScopeLive)
          ~> (/\ callerPc = "return"
              /\ \A i \in 1..requestsCount :
                    (i - 1) \notin DeliveredIndices => Slot(i) = [response |-> Nil, err |-> ErrIgnored])
    /\ (callerPc = "listen" /\ ~ScopeLive) ~> (callerPc = "returned")

\* C11 witness: Do has returned from a run the scope cut short while a
\* transport call is still outstanding and the publisher has a request left
\* to publish; the request in flight is reported Ignored.
C11_Witness ==
    /\ RunReturned /\ ~ScopeLive
    /\ publishPc = "send"
    /\ \E w \in At(fire, "call") :
         ret.errors[w.parcel.index + 1] = ErrIgnored

\* All the workers a pool was given have been started and have returned.
PoolFinished(pool, n) == BagCardinality(pool) = n /\ AllDone(pool)

\* C12: requestList is closed only once the publisher has finished,
\* receivedResponses only once all Wd dispatch workers have finished,
\* processedResponses only once all Wp processing workers have finished, and
\* the three closes happen in that order.
C12_StagedShutdown ==
    /\ closed("requestList") => publishPc = "done"
    /\ closed("receivedResponses") =>
          /\ closed("requestList")
          /\ PoolFinished(fire, dispatchRequestsWorkers)
    /\ closed("processedResponses") =>
          /\ closed("receivedResponses")
          /\ PoolFinished(proc, responseProcessorWorkers)

\* C12 witness: a run of two requests on two workers per pool in which every
\* request was sent; the three channels are closed and the stages finished.
C12_Witness ==
    /\ requestsCount = 2
    /\ dispatchRequestsWorkers = 2 /\ responseProcessorWorkers = 2
    /\ closed("requestList") /\ closed("receivedResponses")
    /\ closed("processedResponses")
    /\ \A i \in 1..requestsCount : raw[i] # Nil
    /\ publishPc = "done"
    /\ PoolFinished(fire, 2) /\ PoolFinished(proc, 2)

\* A goroutine is in a select that offers a send on the channel.
OffersSend(ch) ==
    CASE ch = "requestList" -> publishPc = "send"
      [] ch = "receivedResponses" -> At(fire, "send") # {}
      [] ch = "processedResponses" -> At(proc, "send") # {}

\* A goroutine that receives from the channel has not returned yet.
LiveReceiver(ch) ==
    CASE ch = "requestList" -> \E w \in BagToSet(fire) : w.pc # "done"
      [] ch = "receivedResponses" -> \E p \in BagToSet(proc) : p.pc # "done"
      [] ch = "processedResponses" -> collectorPc \in {"collect", "deliver"}

\* The channels the stages send on.
StageChannels == {"requestList", "receivedResponses", "processedResponses"}

\* C13 as stated: whenever the publisher, a dispatch worker or a processing
\* worker offers a send on requestList, receivedResponses or
\* processedResponses, a goroutine that receives from that channel has not
\* returned yet, in runs the scope cuts short too (here for pools of at least
\* one worker each).
C13_Original ==
    (dispatchRequestsWorkers >= 1 /\ responseProcessorWorkers >= 1) =>
        \A ch \in StageChannels : OffersSend(ch) => LiveReceiver(ch)

\* C13 amended: no publisher, dispatch worker or processing worker ever
\* offers a send on a closed channel; and while the scope has not ended, with
\* pools of at least one worker each, every offered send has a receiver that
\* has not returned.  Once the scope has ended a sender can face a channel
\* whose receivers have all returned (the collector after its hand-over, the
\* workers after the stop signal); it is the stop signal that releases it.
C13_NoSendOnClosedChannel ==
    \A ch \in StageChannels :
        OffersSend(ch) =>
            /\ ~closed(ch)
            /\ (/\ ScopeLive
                /\ dispatchRequestsWorkers >= 1
                /\ responseProcessorWorkers >= 1) => LiveReceiver(ch)

\* C13 witness: the scope has ended and the collector has returned while a
\* processing worker offers its finalized outcome on processedResponses,
\* which is still open, and Do has not closed stopProcessing yet.
C13_Witness ==
    /\ ~ScopeLive
    /\ collectorPc = "done"
    /\ OffersSend("processedResponses")
    /\ ~closed("processedResponses")
    /\ ~closed("stopProcessing")

\* C14: CloseAllResponses never fails, whether the responses array has nil
\* slots, the batch was never run, or its run returned RequestsNotFound: after
\* any number of calls no nil response was dereferenced, no empty slot had a
\* body closed, and every non-nil response had its body closed by each call.
C14_CloseNeverFails ==
    /\ ~closePanic
    /\ DOMAIN respClosed = DOMAIN responses
    /\ \A i \in DOMAIN responses :
          respClosed[i] = IF responses[i] = Nil THEN 0 ELSE closeCalls

\* C14 witness: CloseAllResponses has run on the batch of a returned run of
\* two requests, one slot nil (its request Ignored) and one holding a
\* response whose body is closed.
C14_Witness ==
    /\ RunReturned
    /\ closeCalls >= 1
    /\ ~closePanic
    /\ \E i, j \in DOMAIN responses :
         /\ responses[i] = Nil /\ errors[i] = ErrIgnored /\ respClosed[i] = 0
         /\ responses[j] # Nil /\ respClosed[j] >= 1

\* C15 as stated: over any number of calls of CloseAllResponses each
\* non-empty response body is closed exactly once.
C15_Original ==
    \A i \in DOMAIN respClosed :
        (closeCalls >= 1 /\ responses[i] # Nil) => respClosed[i] = 1

\* C15 amended: a call of CloseAllResponses changes nothing in the batch (its
\* requests, responses, errors and pool sizes), so two or more calls leave it
\* in the state one call leaves it in; every call invokes Close once on the
\* body of each non-empty response, so after k calls such a body has been
\* closed k times (Close on the in-memory bodies Do builds has no effect).
C15_CloseLeavesBatchUnchanged ==
    [][closeCalls' = closeCalls + 1 =>
          /\ UNCHANGED <<batchConf, batchOut>>
          /\ \A i \in DOMAIN responses :
                respClosed'[i] = IF responses[i] = Nil THEN 0 ELSE closeCalls']_vars

\* C15 witness: CloseAllResponses has run twice after a run that returned two
\* responses, and each body has been closed twice.
C15_Witness ==
    /\ RunReturned
    /\ closeCalls = 2
    /\ requestsCount = 2
    /\ \A i \in DOMAIN responses : responses[i] # Nil /\ respClosed[i] = 2

\* The transport returned a response (hence a body) for the request of slot i.
BodyObtained(i) == raw[i] # Nil /\ raw[i].response # Nil

\* A worker holds the raw outcome of slot i: a dispatch worker at its
\* hand-off or a processing worker about to classify it.
RawHeld(i) ==
    \/ \E w \in At(fire, "send") : w.parcel.index = i - 1
    \/ \E p \in At(proc, "parse") : p.parcel.index = i - 1

\* C16: every response body the transport returned during a run is closed
\* exactly once by the pipeline, by the processing worker that classifies it
\* or by the dispatch worker the stop signal met at its hand-off: no body is
\* closed twice, only bodies that were obtained are closed, a body is unclosed
\* exactly while a worker still holds its raw outcome, and so none is left
\* unclosed once all workers have returned.
C16_BodyClosedOnce ==
    \A i \in DOMAIN bodyClosed :
        /\ bodyClosed[i] <= 1
        /\ bodyClosed[i] = 1 => BodyObtained(i)
        /\ BodyObtained(i) => (bodyClosed[i] = 0 <=> RawHeld(i))
        /\ (/\ PoolFinished(fire, dispatchRequestsWorkers)
            /\ PoolFinished(proc, responseProcessorWorkers)
            /\ BodyObtained(i)) => bodyClosed[i] = 1

\* C16 witness: all workers of a run cut short have returned; one body was
\* closed by the processing worker that classified it (its response was
\* delivered), and another, whose outcome never reached the collector, is
\* closed too.
C16_Witness ==
    /\ RunReturned
    /\ PoolFinished(fire, dispatchRequestsWorkers)
    /\ PoolFinished(proc, responseProcessorWorkers)
    /\ \E i, j \in DOMAIN bodyClosed :
         /\ BodyObtained(i) /\ ret.responses[i] # Nil /\ bodyClosed[i] = 1
         /\ BodyObtained(j) /\ raw[j].err = Nil /\ raw[j].response.readable
         /\ ret.errors[j] = ErrIgnored /\ bodyClosed[j] = 1

\* How many goroutines or lists hold a parcel of index k (counted from 0):
\* dispatch workers, processing workers, the collector's list, the list
\* completionListener received.
Holders(k) ==
    Cardinality({w \in BagToSet(fire) : w.parcel # Nil /\ w.parcel.index = k})
    + Cardinality({p \in BagToSet(proc) : p.parcel # Nil /\ p.parcel.index = k})
    + Cardinality({j \in DOMAIN responseList : responseList[j].index = k})
    + Cardinality({j \in DOMAIN delivered : delivered[j].index = k})

\* No two workers of the pool hold the same parcel.
NoCopies(pool) ==
    \A e \in BagToSet(pool) : e.parcel # Nil => CopiesIn(e, pool) = 1

\* A finalized outcome of slot i exists: a processing worker offers it, or
\* the collector or completionListener has it.
FinalizedHeld(i) ==
    \/ \E p \in At(proc, "send") : p.parcel.index = i - 1
    \/ \E j \in DOMAIN responseList : responseList[j].index = i - 1
    \/ \E j \in DOMAIN delivered : delivered[j].index = i - 1

\* How far the request of slot i has come: 0 queued, 1 dispatched (published
\* to a dispatch worker), 2 raw outcome (the transport returned), 3 finalized,
\* 4 delivered (Do has written the arrays).
Stage(i) ==
    IF Written THEN 4
    ELSE IF FinalizedHeld(i) THEN 3
    ELSE IF raw[i] # Nil THEN 2
    ELSE IF publishIndex >= i THEN 1
    ELSE 0

\* C17: within one run each request only moves forward through queued,
\* dispatched, raw outcome, finalized, delivered; the transport is invoked at
\* most once per index, a parcel of an index is in at most one place of the
\* pipeline (so at most one finalized outcome per index reaches the
\* collector), and neither the collector's list nor the list it delivers
\* holds an index twice.
C17_ForwardOnly ==
    /\ [](/\ \A i \in DOMAIN calls : calls[i] <= 1 /\ (calls[i] = 1 <=> raw[i] # Nil)
          /\ NoCopies(fire) /\ NoCopies(proc)
          /\ \A i \in DOMAIN calls : Holders(i - 1) <= 1
          /\ Len(responseList) <= requestsCount
          /\ Len(delivered) <= requestsCount)
    /\ [][\A i \in DOMAIN raw : Stage(i)' >= Stage(i)]_vars

\* C17 witness: both requests of a run went through two dispatch workers, one
\* transport call each, and completionListener holds one finalized outcome
\* for each index, not yet written.
C17_Witness ==
    /\ callerPc = "write"
    /\ dispatchRequestsWorkers = 2
    /\ Len(delivered) = 2
    /\ delivered[1].index # delivered[2].index
    /\ \A i \in DOMAIN calls : calls[i] = 1 /\ Stage(i) = 3

\* How many times completionListener, about to run, writes slot i: once per
\* received parcel of that index (replaceErrorAtIndex or
\* replaceResponseAtIndex), and once more in addRequestIgnoredErrors if the
\* loop left the slot with no response and no error.
WritesOf(i) ==
    LET b == writeParcels([responses |-> responses, errors |-> errors],
                          delivered)
    IN Cardinality({k \in DOMAIN delivered : delivered[k].index = i - 1})
       + (IF b.responses[i] = Nil /\ b.errors[i] = Nil THEN 1 ELSE 0)

\* C18: the output arrays have a single writer.  Do allocates them fresh,
\* they stay all-nil until the collector has delivered its list, the
\* caller's post-collector step writes every index exactly once, and no other
\* step changes them: not the publisher's, a worker's, the collector's or the
\* orchestrator's, also while workers still run after Do has returned.
C18_SingleWriter ==
    /\ [](callerPc \in {"listen", "write"} =>
             /\ responses = makeSlice(requestsCount)
             /\ errors = makeSlice(requestsCount))
    /\ [](callerPc = "write" => \A i \in 1..requestsCount : WritesOf(i) = 1)
    /\ [][batchOut' # batchOut =>
             \/ callerPc = "idle" /\ callerPc' = "listen"
             \/ callerPc = "write" /\ callerPc' = "return"]_vars

\* C18 witness: Do has returned with the arrays as completionListener wrote
\* them, one slot holding a response, while a dispatch worker is still in a
\* transport call.
C18_Witness ==
    /\ RunReturned
    /\ responses = ret.responses /\ errors = ret.errors
    /\ At(fire, "call") # {}
    /\ \E i \in DOMAIN responses : responses[i] # Nil

\* C19: while the scope has not ended, with pools of at least one worker
\* each, no result is dropped.  Until Do returns every published request is
\* held in exactly one place of the pipeline (a worker, the collector's list
\* or the list completionListener received); the collector never finds
\* processedResponses closed while it still collects; when it stops
\* collecting every request has been published, sent by the transport once
\* and classified; and the list it delivers has exactly N outcomes, one for
\* every index 0..N-1.
C19_NoResultDropped ==
    (/\ ScopeLive
     /\ dispatchRequestsWorkers >= 1
     /\ responseProcessorWorkers >= 1) =>
        /\ callerPc \in {"listen", "write", "return"} =>
              \A i \in 1..requestsCount :
                  Holders(i - 1) = IF publishIndex >= i THEN 1 ELSE 0
        /\ collectorPc = "collect" => ~closed("processedResponses")
        /\ collectorPc = "deliver" =>
              /\ Len(responseList) = requestsCount
              /\ {responseList[k].index : k \in DOMAIN responseList}
                    = 0..(requestsCount - 1)
              /\ publishIndex = requestsCount
              /\ \A i \in 1..requestsCount : calls[i] = 1 /\ raw[i] # Nil
        /\ callerPc \in {"write", "return"} =>
              /\ Len(delivered) = requestsCount
              /\ DeliveredIndices = 0..(requestsCount - 1)

\* C19 witness: with the scope live and one worker per pool,
\* completionListener has received a list of two outcomes, one per index.
C19_Witness ==
    /\ ScopeLive
    /\ callerPc = "write"
    /\ requestsCount = 2
    /\ dispatchRequestsWorkers = 1 /\ responseProcessorWorkers = 1
    /\ Len(delivered) = 2
    /\ DeliveredIndices = {0, 1}

\* A TransportError outcome is somewhere between the processing stage and
\* the batch: offered by a processing worker, in the collector's list, in the
\* list completionListener received, or in the errors array.
TransportErrorPresent ==
    \/ \E p \in At(proc, "send") :
          p.parcel.err # Nil /\ p.parcel.err.tag = "TransportError"
    \/ \E k \in DOMAIN responseList :
          responseList[k].err # Nil /\ responseList[k].err.tag = "TransportError"
    \/ \E k \in DOMAIN delivered :
          delivered[k].err # Nil /\ delivered[k].err.tag = "TransportError"
    \/ \E i \in DOMAIN errors :
          errors[i] # Nil /\ errors[i].tag = "TransportError"

\* C20: when a processing worker classifies a raw outcome that carries a
\* transport error, the outcome it emits is Ignored if and only if the scope
\* has ended by then, cancelled or deadline-exceeded alike, and the
\* TransportError wrapping that error otherwise; so in a run whose scope had
\* ended before Do was called no TransportError is ever emitted, collected
\* or reported.
C20_FailedCallClassification ==
    /\ [][\A p \in At(proc, "parse") :
            p.parcel.err # Nil =>
                \A e \in At(proc, "send")' :
                    (e.parcel.index = p.parcel.index /\ e \notin At(proc, "send"))
                        => e.parcel =
                             [response |-> Nil,
                              err |-> IF ctxErr \in {"canceled", "deadline"}
                                      THEN ErrIgnored
                                      ELSE [tag |-> "TransportError",
                                            cause |-> p.parcel.err],
                              index |-> p.parcel.index]]_vars
    /\ [](ctxAtStart # "nil" => ~TransportErrorPresent)

\* C20 witness: the scope ended on its deadline, and a processing worker
\* offers the Ignored outcome it gave a failed transport call while another
\* failed call, classified before the scope ended, sits in the collector's
\* list as a TransportError.
C20_Witness ==
    /\ ctxErr = "deadline"
    /\ \E p \in At(proc, "send") :
         /\ p.parcel.err = ErrIgnored
         /\ raw[p.parcel.index + 1].err # Nil
    /\ \E k \in DOMAIN responseList :
         /\ responseList[k].err # Nil
         /\ responseList[k].err.tag = "TransportError"

\* The transport call of slot i failed while the scope was still live: a
\* failure the scope did not cause.
GenuineFailure(i) ==
    raw[i] # Nil /\ raw[i].err # Nil /\ ctxAtCall[i] = "nil"

\* The finalized outcomes of slot i between the processing stage and the
\* caller: offered by a processing worker, collected, or received by
\* completionListener.
FinalizedOf(i) ==
    {p.parcel : p \in {q \in At(proc, "send") : q.parcel.index = i - 1}}
    \cup {responseList[k] : k \in {j \in DOMAIN responseList :
                                        responseList[j].index = i - 1}}
    \cup {delivered[k] : k \in {j \in DOMAIN delivered :
                                     delivered[j].index = i - 1}}

\* C21: the classification race exists and is the only way a genuine
\* failure loses its error.  A transport call that failed while the scope was
\* live is finalized either as the TransportError wrapping its failure or as
\* Ignored, and as Ignored only if the scope has ended since; the execution
\* in which that happens is reachable (C21_Witness).
C21_GenuineFailureRace ==
    \A i \in DOMAIN raw :
        GenuineFailure(i) =>
            \A fin \in FinalizedOf(i) :
                /\ fin.response = Nil
                /\ \/ fin.err = [tag |-> "TransportError", cause |-> raw[i].err]
                   \/ fin.err = ErrIgnored /\ ~ScopeLive

\* C21 witness: a transport call failed while the scope was live, the scope
\* ended before a processing worker classified the outcome, the collector
\* received it as Ignored, and Do has written Ignored into the errors array.
C21_Witness ==
    /\ callerPc = "return"
    /\ \E i \in DOMAIN raw :
         /\ GenuineFailure(i)
         /\ \E fin \in FinalizedOf(i) : fin.err = ErrIgnored
         /\ errors[i] = ErrIgnored

\* How many workers of the pool are at position pc.
CountAt(pool, pc) == BagCardinality([e \in At(pool, pc) |-> pool[e]])

\* The orchestrator has run its go statements.
Spawned == orchPc \notin {"none", "spawn"}

\* C22: at most Wd transport calls are in flight and at most Wp raw outcomes
\* are being classified, whatever N is; a run has no worker before the
\* orchestrator starts the pools and exactly Wd dispatch workers and Wp
\* processing workers from then on, none started later and none lost.
C22_BoundedConcurrency ==
    /\ CountAt(fire, "call") <= dispatchRequestsWorkers
    /\ CountAt(proc, "parse") <= responseProcessorWorkers
    /\ BagCardinality(fire) = IF Spawned THEN dispatchRequestsWorkers ELSE 0
    /\ BagCardinality(proc) = IF Spawned THEN responseProcessorWorkers ELSE 0

\* C22 witness: a run of two requests on one worker per pool; the only
\* dispatch worker is in the second transport call while the only processing
\* worker classifies the first raw outcome.
C22_Witness ==
    /\ requestsCount = 2
    /\ dispatchRequestsWorkers = 1 /\ responseProcessorWorkers = 1
    /\ CountAt(fire, "call") = 1
    /\ CountAt(proc, "parse") = 1

\* The indices (counted from 0) that have reached a dispatch worker: a worker
\* or a list holds a parcel of the index, or its transport call has returned.
HandedOff ==
    {i - 1 : i \in {j \in DOMAIN raw : Holders(j - 1) >= 1 \/ raw[j] # Nil}}

\* A dispatch worker has just received the request of index k from the
\* publisher.
Received(k) ==
    /\ \A w \in At(fire, "call") : w.parcel.index # k
    /\ \E w \in At(fire, "call")' :
         w.parcel = [request |-> requests[k + 1], index |-> k]

\* C23: the publisher hands the requests to the dispatch workers in strictly
\* increasing index order, each index at most once.  In every state the
\* indices handed off so far are the prefix 0..publishIndex-1; the loop index
\* moves only by one, in the step in which a dispatch worker receives the
\* request of that index; and once the publisher has finished, on the last
\* request or on the stop signal, no further index is handed off.
C23_PublishInOrder ==
    /\ [](HandedOff = 0..(publishIndex - 1))
    /\ [][publishIndex' # publishIndex =>
             /\ publishPc = "send"
             /\ publishIndex' = publishIndex + 1
             /\ Received(publishIndex)]_vars
    /\ [][publishPc = "done" =>
             /\ publishPc' = "done"
             /\ publishIndex' = publishIndex
             /\ HandedOff' = HandedOff]_vars

\* C23 witness: the publisher has left its loop on the stop signal with the
\* second of two requests never handed off.
C23_Witness ==
    /\ requestsCount = 2
    /\ closed("stopProcessing")
    /\ publishPc = "done"
    /\ publishIndex = 1
    /\ HandedOff = {0}

\* Do has made the channels of a run.
RunStarted == DOMAIN closes # {}

\* C24: the stop signal is raised exactly once per run that starts the
\* pipeline, on the normal path and on the aborted one alike: stopProcessing
\* is closed exactly when Do has returned and never twice, and by then the
\* collector has handed over its list and returned, completionListener has
\* written the outcomes and the Ignored fill-ins into every slot and closed
\* collectResponses; it is never closed while the collector still
\* accumulates or waits to hand over.
C24_StopSignalOnce ==
    RunStarted =>
        /\ closes["stopProcessing"] <= 1
        /\ closed("stopProcessing") <=> callerPc = "returned"
        /\ closed("stopProcessing") =>
              /\ collectorPc = "done"
              /\ closed("collectResponses")
              /\ \A i \in 1..requestsCount :
                    (responses[i] = Nil) # (errors[i] = Nil)
        /\ collectorPc \in {"collect", "deliver"} => ~closed("stopProcessing")

\* C24 witness: Do has returned from a run the scope cut short, with a slot
\* filled in as Ignored, and stopProcessing has been closed once while a
\* dispatch worker still holds a raw outcome to hand off.
C24_Witness ==
    /\ RunReturned /\ ~ScopeLive
    /\ closes["stopProcessing"] = 1
    /\ \E i \in DOMAIN errors : errors[i] = ErrIgnored
    /\ At(fire, "send") # {}

\* C25: no runtime panic from the channels.  In every state of a run, aborted
\* runs included, no channel of the run has been closed more than once; the
\* publisher and the workers offer no send on a closed channel; and the
\* collector's single send on collectResponses precedes the caller's close of
\* it: collectResponses is open as long as the collector has not handed over
\* its list.
C25_ChannelDiscipline ==
    RunStarted =>
        /\ \A ch \in Channels : closes[ch] <= 1
        /\ \A ch \in StageChannels : closed(ch) => ~OffersSend(ch)
        /\ closed("collectResponses") =>
              collectorPc = "done" /\ callerPc \in {"return", "returned"}

\* C25 witness: an aborted run has wound down: every goroutine has returned
\* and each of the five channels has been closed exactly once.
C25_Witness ==
    /\ RunReturned /\ ~ScopeLive
    /\ Terminated
    /\ \E i \in DOMAIN errors : errors[i] = ErrIgnored
    /\ \A ch \in Channels : closes[ch] = 1

\* A batch of at least one request with an empty pool.
EmptyPool ==
    /\ requestsCount >= 1
    /\ dispatchRequestsWorkers = 0 \/ responseProcessorWorkers = 0

\* C26: the pool sizes are not validated.  For N >= 1 with Wd = 0 or Wp = 0
\* the collector never receives an outcome; while the scope has not ended Do
\* does not get past its wait for the collector, the publisher (Wd = 0)
\* standing at its first send and every dispatch worker whose call has
\* returned (Wp = 0) standing at its hand-off; Do writes the arrays and
\* returns only once the scope has ended, and then every slot is Ignored.
C26_EmptyPoolBlocks ==
    EmptyPool =>
        /\ responseList = <<>> /\ delivered = <<>>
        /\ ScopeLive => callerPc \in {"idle", "listen"}
        /\ (Spawned /\ ~closed("stopProcessing")) =>
              /\ dispatchRequestsWorkers = 0 =>
                    publishPc = "send" /\ publishIndex = 0
              /\ \A i \in DOMAIN raw :
                    raw[i] # Nil =>
                        \E w \in At(fire, "send") : w.parcel.index = i - 1
        /\ Written =>
              /\ ~ScopeLive
              /\ \A i \in 1..requestsCount :
                    Slot(i) = [response |-> Nil, err |-> ErrIgnored]
        /\ RunReturned =>
              \A i \in 1..requestsCount :
                  ret.responses[i] = Nil /\ ret.errors[i] = ErrIgnored

\* C26 witness: a run of two requests with one dispatch worker and no
\* processing worker; the first transport call succeeded and its outcome was
\* never handed on, the scope ended, and Do has returned two Ignored slots.
C26_Witness ==
    /\ RunReturned
    /\ requestsCount = 2
    /\ dispatchRequestsWorkers = 1 /\ responseProcessorWorkers = 0
    /\ CallSucceeded(1) /\ raw[1].response.readable
    /\ ctxAtCall[1] = "nil"
    /\ \A i \in 1..requestsCount : ret.errors[i] = ErrIgnored

\* The values of ctx.Err() parseResponse can meet.
CtxErrs == {"nil", "canceled", "deadline"}

\* The kinds of error a finalized outcome can carry.
FinalErrorTags == {"ErrIgnored", "TransportError", "ProtocolError",
                   "BodyReadError"}

\* The raw outcome has a response, no transport error and a readable body.
Served(res) ==
    res.response # Nil /\ res.err = Nil /\ res.response.readable

\* The finalized outcome fin is a well-formed classification of the raw
\* outcome res.
WellFormed(fin, res) ==
    /\ fin.index = res.index
    /\ (fin.response = Nil) # (fin.err = Nil)
    /\ fin.err = Nil <=> Served(res)
    /\ fin.err = Nil => fin.response.of = res.response.of
    /\ fin.err # Nil =>
          /\ fin.err.tag \in FinalErrorTags
          /\ fin.err.tag = "ProtocolError"
                <=> (res.response = Nil /\ res.err = Nil)
          /\ fin.err.tag = "BodyReadError"
                <=> (res.response # Nil /\ res.err = Nil
                     /\ ~res.response.readable)
          /\ fin.err.tag \in {"ErrIgnored", "TransportError"}
                <=> res.err # Nil

\* C27: every finalized outcome a processing worker emits carries the index
\* of the raw outcome it was computed from and exactly one of response and
\* error: a response with a nil error exactly when the raw outcome had a
\* response, no transport error and a readable body, and otherwise an error
\* with a nil response, Ignored or TransportError for a transport error,
\* ProtocolError for a nil response with a nil error, BodyReadError for an
\* unreadable body.  This holds of what parseResponse gives every raw outcome
\* a worker is about to classify, under every value of ctx.Err(), and of
\* every outcome a worker offers, against the transport's outcome for its
\* index.
C27_FinalizedWellFormed ==
    /\ \A p \in At(proc, "parse") :
          \A ctx \in CtxErrs :
              WellFormed(parseResponse(ctx, p.parcel), p.parcel)
    /\ \A p \in At(proc, "send") :
          /\ p.parcel.index + 1 \in DOMAIN raw
          /\ raw[p.parcel.index + 1] # Nil
          /\ WellFormed(p.parcel, RawOf(p.parcel.index + 1))
          /\ p.parcel \in {parseResponse(ctx, RawOf(p.parcel.index + 1)) :
                             ctx \in CtxErrs}

\* C27 witness: of two processing workers, one offers a ProtocolError for
\* the first request, whose call returned neither response nor error, and the
\* other a response for the second request.
C27_Witness ==
    \E p, q \in At(proc, "send") :
        /\ p.parcel.index = 0
        /\ p.parcel.err = [tag |-> "ProtocolError"]
        /\ raw[1] = [response |-> Nil, err |-> Nil]
        /\ q.parcel.index = 1
        /\ q.parcel.err = Nil /\ q.parcel.response # Nil
=============================================================================
